---- MODULE Spec2Model ----
(***************************************************************************)
(* Model of SocketControllerExecutor (src/src/SocketControllerExecutor.ts): *)
(* the dispatch of connect / disconnect / message actions, parameter       *)
(* resolution, handler invocation and the routing of the outcome to         *)
(* socket.emit or the acknowledgment callback.                              *)
(***************************************************************************)
EXTENDS Integers, Sequences, FiniteSets, TLC

VARIABLES useClassTransformer, validate, actions, sockets, inv

vars == <<useClassTransformer, validate, actions, sockets, inv>>

(***************************************************************************)
(* Bounds                                                                  *)
(***************************************************************************)
MaxInv == 1
MaxParams == 2
MaxIndex == 1
\* invocations started in a run of the dispatch specification
MaxDispatch == 2
\* invocations in flight at once in the specifications of overlapping invocations
MaxOverlap == 2

(***************************************************************************)
(* JavaScript values.  Every value is a record of the same shape:          *)
(*   t      typeof-like tag                                                *)
(*   cls    constructor.name                                               *)
(*   v      content                                                        *)
(*   own    has own enumerable fields (Object.keys(x).length > 0)          *)
(*   errors the errors list of a ValidationException                       *)
(*   opts   class-transformer options the value was produced with          *)
(*   tf     the socket a param transform function was applied with         *)
(***************************************************************************)
Val(t, cls, v, own) ==
    [t |-> t, cls |-> cls, v |-> v, own |-> own, errors |-> <<>>, opts |-> "", tf |-> ""]

Undefined == Val("undefined", "", "", FALSE)
Null == Val("null", "", "", FALSE)
Str(s) == Val("string", "String", s, FALSE)
Num(s) == Val("number", "Number", s, FALSE)
Bool(b) == Val("boolean", "Boolean", IF b THEN "true" ELSE "false", FALSE)
PlainObj(c) == Val("object", "Object", c, c # "")
Instance(cls, c) == Val("object", cls, c, TRUE)

\* value !== null && value !== undefined
Present(x) == x.t \notin {"undefined", "null"}

\* !!value
Truthy(x) ==
    CASE x.t \in {"undefined", "null"} -> FALSE
      [] x.t = "string" -> x.v # ""
      [] x.t = "number" -> x.v \notin {"0", "NaN"}
      [] x.t = "boolean" -> x.v = "true"
      [] OTHER -> TRUE

\* value instanceof Object
InstanceOfObject(x) == x.t \in {"object", "function"}

\* value instanceof Error
InstanceOfError(x) == x.t = "object" /\ x.cls \in {"Error", "TypeError", "CustomError"}

\* +value
ToNumber(x) ==
    CASE x.t = "number" -> x
      [] x.t = "string" /\ x.v \in {"42", "1", "0"} -> Num(x.v)
      [] x.t = "string" /\ x.v = "" -> Num("0")
      [] x.t = "boolean" -> Num(IF x.v = "true" THEN "1" ELSE "0")
      [] x.t = "null" -> Num("0")
      [] OTHER -> Num("NaN")

\* error.toString()
ErrorToString(e) == Str("Error: " \o e.v)

(***************************************************************************)
(* Errors                                                                  *)
(***************************************************************************)
\* new ValidationException(errors): Exception sets message and name
ValidationException(errors) ==
    [Instance("ValidationException", "Validation failed") EXCEPT !.errors = errors]

\* new ParameterParseJsonError(value)
ParameterParseJsonError(value) ==
    Instance("ParameterParseJsonError", "Parameter is invalid. Value (" \o value.v \o ") cannot be parsed to JSON")

\* new Error(msg): message and stack are not enumerable
GenericError(msg) == Val("object", "Error", msg, FALSE)

\* reading a property of undefined
TypeErrorOf(msg) == Val("object", "TypeError", msg, FALSE)

\* an Error subclass with a public field
CustomError(msg) == Val("object", "CustomError", msg, TRUE)

(***************************************************************************)
(* Types of the metadata (ActionTypes, ParamTypes, ResultTypes)            *)
(***************************************************************************)
ActionTypes == {"connect", "disconnect", "message"}

SocketParamTypes ==
    {"connected-socket", "socket-io", "socket-query-param", "socket-id",
     "socket-request", "socket-rooms"}

ParamTypes == SocketParamTypes \cup {"socket-body", "custom"}

ResultTypes == {"emit_on_success", "emit_on_fail", "emit_on_fail_for", "skip_emit_on_empty_result"}

\* reflectedType of a parameter: a constructor name, "" when there is none
ReflectedTypes == {"", "Number", "String", "Boolean", "Object", "CreateMessageDto"}

\* a result handler that is not declared (action.emitOnSuccess is undefined)
NoPolicy == [set |-> FALSE, value |-> "", classTransformOptions |-> "", errorType |-> ""]

Policy(value, options, errorType) ==
    [set |-> TRUE, value |-> value, classTransformOptions |-> options, errorType |-> errorType]

\* this.classToPlainTransformOptions, this.plainToClassTransformOptions
classToPlainTransformOptions == "globalToPlain"
plainToClassTransformOptions == "globalToClass"

\* a || b on option objects ("" stands for undefined)
OrElse(a, b) == IF a # "" THEN a ELSE b

(***************************************************************************)
(* class-transformer and class-validator, by what the executor uses of them *)
(***************************************************************************)
\* classToPlain(value, options): a plain object with the value's own fields
classToPlain(value, options) ==
    [value EXCEPT !.cls = "Object", !.opts = options]

\* plainToClass(cls, plain, options): an instance of cls with the plain fields
plainToClass(cls, plain, options) ==
    [plain EXCEPT !.t = "object", !.cls = cls, !.opts = options]

\* validate(instance): every violated constraint of the instance, in field order
ValidateInstance(instance) ==
    CASE instance.v = "text=hi,author=me" -> <<>>
      [] instance.v = "text=,author=me" -> <<"text.isNotEmpty">>
      [] instance.v = "text=," -> <<"text.isNotEmpty", "author.isString">>
      [] OTHER -> <<"text.isNotEmpty", "author.isString">>

\* JSON.parse(text): [ok |-> FALSE] when it throws
JsonParse(text) ==
    CASE text = "{\"text\":\"hi\",\"author\":\"me\"}" -> [ok |-> TRUE, val |-> PlainObj("text=hi,author=me")]
      [] text = "{\"text\":\"\",\"author\":\"me\"}" -> [ok |-> TRUE, val |-> PlainObj("text=,author=me")]
      [] text = "{\"text\":\"\"}" -> [ok |-> TRUE, val |-> PlainObj("text=,")]
      [] text = "{}" -> [ok |-> TRUE, val |-> PlainObj("")]
      [] text \in {"42", "1", "0"} -> [ok |-> TRUE, val |-> Num(text)]
      [] text \in {"true", "false"} -> [ok |-> TRUE, val |-> Bool(text = "true")]
      [] OTHER -> [ok |-> FALSE, val |-> Undefined]

\* a resolution that fulfils with val / rejects with val
Fulfilled(val) == [ok |-> TRUE, val |-> val]
Rejected(val) == [ok |-> FALSE, val |-> val]

(***************************************************************************)
(* Parameter resolution: parseParamValue, handleParamFormat, handleParam   *)
(***************************************************************************)
\* parseParamValue validating by the global default alone
parseParamValueGlobalOnly(value, paramMetadata, useCT, validateDefault) ==
    LET parsed == IF value.t = "string" THEN JsonParse(value.v) ELSE Fulfilled(value)
        reflected == paramMetadata.reflectedType
        instance == plainToClass(reflected, parsed.val,
                                 OrElse(paramMetadata.classTransformOptions, plainToClassTransformOptions))
        errors == ValidateInstance(instance)
    IN  IF ~parsed.ok THEN Rejected(ParameterParseJsonError(value))
        ELSE IF reflected # "Object" /\ reflected # "" /\ useCT
             THEN IF validateDefault /\ Len(errors) > 0
                  THEN Rejected(ValidationException(errors))
                  ELSE Fulfilled(instance)
             ELSE Fulfilled(parsed.val)

parseParamValue(value, paramMetadata, useCT, validateDefault) ==
    LET parsed == IF value.t = "string" THEN JsonParse(value.v) ELSE Fulfilled(value)
        reflected == paramMetadata.reflectedType
        instance == plainToClass(reflected, parsed.val,
                                 OrElse(paramMetadata.classTransformOptions, plainToClassTransformOptions))
        validateInstance == IF paramMetadata.validate # "undefined"
                            THEN paramMetadata.validate = "true"
                            ELSE validateDefault
        errors == ValidateInstance(instance)
    IN  IF ~parsed.ok THEN Rejected(ParameterParseJsonError(value))
        ELSE IF reflected # "Object" /\ reflected # "" /\ useCT
             THEN IF validateInstance /\ Len(errors) > 0
                  THEN Rejected(ValidationException(errors))
                  ELSE Fulfilled(instance)
             ELSE Fulfilled(parsed.val)

\* handleParamFormat taking the truthiness of every boolean payload
handleParamFormatTruthiness(value, param, useCT, validateDefault) ==
    LET format == param.reflectedType
    IN  CASE format = "Number" -> Fulfilled(ToNumber(value))
          [] format = "String" -> Fulfilled(value)
          [] format = "Boolean" -> Fulfilled(Bool(Truthy(value)))
          [] OTHER ->
                IF Truthy(value) /\ format # ""
                THEN parseParamValue(value, param, useCT, validateDefault)
                ELSE Fulfilled(value)

handleParamFormat(value, param, useCT, validateDefault) ==
    LET format == param.reflectedType
    IN  CASE format = "Number" -> Fulfilled(ToNumber(value))
          [] format = "String" -> Fulfilled(value)
          [] format = "Boolean" ->
                IF value = Str("true") THEN Fulfilled(Bool(TRUE))
                ELSE IF value = Str("false") THEN Fulfilled(Bool(FALSE))
                ELSE Fulfilled(Bool(Truthy(value)))
          [] OTHER ->
                IF Truthy(value) /\ format # ""
                THEN parseParamValue(value, param, useCT, validateDefault)
                ELSE Fulfilled(value)

\* param.transform(value, socket)
ApplyTransform(value, socket) == [value EXCEPT !.tf = socket]

\* handleParam returning the formatted value without applying param.transform
handleParamNoTransform(param, data, socket, useCT, validateDefault) ==
    IF Present(data) /\ data # Str("")
    THEN handleParamFormat(data, param, useCT, validateDefault)
    ELSE Fulfilled(data)

handleParam(param, data, socket, useCT, validateDefault) ==
    LET formatted == IF Present(data) /\ data # Str("")
                     THEN handleParamFormat(data, param, useCT, validateDefault)
                     ELSE Fulfilled(data)
    IN  IF ~formatted.ok THEN formatted
        ELSE IF param.transform THEN Fulfilled(ApplyTransform(formatted.val, socket))
        ELSE formatted

(***************************************************************************)
(* Result routing: handleSuccessResult, handleFailResult, errorMatchesType *)
(***************************************************************************)
\* socket.emit(event, payload) and socket.emit(event)
Emit(socket, event, payload) ==
    [socket |-> socket, event |-> event, hasPayload |-> TRUE, payload |-> payload]
EmitEmpty(socket, event) ==
    [socket |-> socket, event |-> event, hasPayload |-> FALSE, payload |-> Undefined]

\* what a router call did: the emissions, the acknowledgments, and whether it threw
Effect(emits, acks) == [emits |-> emits, acks |-> acks, threw |-> FALSE, thrown |-> Undefined]
Throws(error) == [emits |-> <<>>, acks |-> <<>>, threw |-> TRUE, thrown |-> error]

\* a second argument of a message event that is truthy and not a function
\* (the client sent a string after the data); calling it throws a TypeError
NotCallable == "string"

\* a type reference supplied lazily, () => ValidationException, kept as it is
\* until match time
LazyValidationException == "() => ValidationException"

\* the type a policy's errorType refers to
Referent(errorType) ==
    IF errorType = LazyValidationException THEN "ValidationException" ELSE errorType

\* (<any>expectedType).name: the name of a class, "" for an anonymous arrow function
TypeName(errorType) ==
    IF errorType = LazyValidationException THEN "" ELSE errorType

errorMatchesType(expectedType, actualType) ==
    actualType.cls = TypeName(expectedType)

\* handleSuccessResult answering the callback before looking at emit-on-success
handleSuccessResultAckFirst(result, action, socket, clientCallback, useCT) ==
    IF Present(result) /\ clientCallback # "none"
    THEN Effect(<<>>, <<result>>)
    ELSE IF ~Present(result) /\ clientCallback # "none"
    THEN Effect(<<>>, <<Str("received")>>)
    ELSE IF Present(result) /\ action.emitOnSuccess.set
    THEN Effect(<<Emit(socket, action.emitOnSuccess.value,
                       IF useCT /\ InstanceOfObject(result)
                       THEN classToPlain(result, OrElse(action.emitOnSuccess.classTransformOptions,
                                                        classToPlainTransformOptions))
                       ELSE result)>>, <<>>)
    ELSE IF ~Present(result) /\ action.emitOnSuccess.set /\ ~action.skipEmitOnEmptyResult
    THEN Effect(<<EmitEmpty(socket, action.emitOnSuccess.value)>>, <<>>)
    ELSE Effect(<<>>, <<>>)

\* handleSuccessResult answering every callback with "received"
handleSuccessResultAckReceived(result, action, socket, clientCallback, useCT) ==
    IF Present(result) /\ action.emitOnSuccess.set
    THEN Effect(<<Emit(socket, action.emitOnSuccess.value,
                       IF useCT /\ InstanceOfObject(result)
                       THEN classToPlain(result, OrElse(action.emitOnSuccess.classTransformOptions,
                                                        classToPlainTransformOptions))
                       ELSE result)>>, <<>>)
    ELSE IF ~Present(result) /\ action.emitOnSuccess.set /\ ~action.skipEmitOnEmptyResult
    THEN Effect(<<EmitEmpty(socket, action.emitOnSuccess.value)>>, <<>>)
    ELSE IF clientCallback # "none"
    THEN Effect(<<>>, <<Str("received")>>)
    ELSE Effect(<<>>, <<>>)

\* handleSuccessResult not reading skipEmitOnEmptyResult
handleSuccessResultNoSkip(result, action, socket, clientCallback, useCT) ==
    IF Present(result) /\ action.emitOnSuccess.set
    THEN Effect(<<Emit(socket, action.emitOnSuccess.value,
                       IF useCT /\ InstanceOfObject(result)
                       THEN classToPlain(result, OrElse(action.emitOnSuccess.classTransformOptions,
                                                        classToPlainTransformOptions))
                       ELSE result)>>, <<>>)
    ELSE IF ~Present(result) /\ action.emitOnSuccess.set
    THEN Effect(<<EmitEmpty(socket, action.emitOnSuccess.value)>>, <<>>)
    ELSE IF Present(result) /\ clientCallback # "none"
    THEN Effect(<<>>, <<result>>)
    ELSE IF ~Present(result) /\ clientCallback # "none"
    THEN Effect(<<>>, <<Str("received")>>)
    ELSE Effect(<<>>, <<>>)

\* handleSuccessResult emitting the result as it is, without classToPlain
handleSuccessResultRaw(result, action, socket, clientCallback, useCT) ==
    IF Present(result) /\ action.emitOnSuccess.set
    THEN Effect(<<Emit(socket, action.emitOnSuccess.value, result)>>, <<>>)
    ELSE IF ~Present(result) /\ action.emitOnSuccess.set /\ ~action.skipEmitOnEmptyResult
    THEN Effect(<<EmitEmpty(socket, action.emitOnSuccess.value)>>, <<>>)
    ELSE IF Present(result) /\ clientCallback # "none"
    THEN Effect(<<>>, <<result>>)
    ELSE IF ~Present(result) /\ clientCallback # "none"
    THEN Effect(<<>>, <<Str("received")>>)
    ELSE Effect(<<>>, <<>>)

handleSuccessResult(result, action, socket, clientCallback, useCT) ==
    IF Present(result) /\ action.emitOnSuccess.set
    THEN LET transformOptions == OrElse(action.emitOnSuccess.classTransformOptions,
                                        classToPlainTransformOptions)
             transformedResult == IF useCT /\ InstanceOfObject(result)
                                  THEN classToPlain(result, transformOptions)
                                  ELSE result
         IN  Effect(<<Emit(socket, action.emitOnSuccess.value, transformedResult)>>, <<>>)
    ELSE IF ~Present(result) /\ action.emitOnSuccess.set /\ ~action.skipEmitOnEmptyResult
    THEN Effect(<<EmitEmpty(socket, action.emitOnSuccess.value)>>, <<>>)
    ELSE IF Present(result) /\ clientCallback # "none"
    THEN IF clientCallback = NotCallable
         THEN Throws(TypeErrorOf("clientCallback is not a function"))
         ELSE Effect(<<>>, <<result>>)
    ELSE IF ~Present(result) /\ clientCallback # "none"
    THEN IF clientCallback = NotCallable
         THEN Throws(TypeErrorOf("clientCallback is not a function"))
         ELSE Effect(<<>>, <<Str("received")>>)
    ELSE Effect(<<>>, <<>>)

\* handleFailResult looking at emit-on-fail-for first when there is no error
handleFailResultForFirst(error, action, socket, useCT) ==
    IF Present(error) /\ (action.emitOnFail.set \/ action.emitOnFailFor.set)
    THEN IF ~action.emitOnSuccess.set
         THEN Throws(TypeErrorOf("Cannot read property 'classTransformOptions' of undefined"))
         ELSE LET transformedResult ==
                      IF useCT /\ InstanceOfObject(error)
                      THEN classToPlain(error, OrElse(action.emitOnSuccess.classTransformOptions,
                                                      classToPlainTransformOptions))
                      ELSE error
              IN  IF /\ action.emitOnFailFor.set
                     /\ action.emitOnFailFor.errorType # ""
                     /\ errorMatchesType(action.emitOnFailFor.errorType, error)
                  THEN Effect(<<Emit(socket, action.emitOnFailFor.value, transformedResult)>>, <<>>)
                  ELSE IF action.emitOnFail.set
                  THEN IF InstanceOfError(error) /\ ~transformedResult.own
                       THEN Effect(<<Emit(socket, action.emitOnFail.value, ErrorToString(error))>>, <<>>)
                       ELSE Effect(<<Emit(socket, action.emitOnFail.value, transformedResult)>>, <<>>)
                  ELSE Effect(<<>>, <<>>)
    ELSE IF ~Present(error) /\ ~action.skipEmitOnEmptyResult
    THEN IF action.emitOnFailFor.set
         THEN Effect(<<EmitEmpty(socket, action.emitOnFailFor.value)>>, <<>>)
         ELSE IF action.emitOnFail.set
         THEN Effect(<<EmitEmpty(socket, action.emitOnFail.value)>>, <<>>)
         ELSE Effect(<<>>, <<>>)
    ELSE Effect(<<>>, <<>>)

\* handleFailResult emitting on emit-on-fail-for whenever emit-on-fail is missing,
\* matching type or not
handleFailResultFallback(error, action, socket, useCT) ==
    IF Present(error) /\ (action.emitOnFail.set \/ action.emitOnFailFor.set)
    THEN IF ~action.emitOnSuccess.set
         THEN Throws(TypeErrorOf("Cannot read property 'classTransformOptions' of undefined"))
         ELSE LET transformedResult ==
                      IF useCT /\ InstanceOfObject(error)
                      THEN classToPlain(error, OrElse(action.emitOnSuccess.classTransformOptions,
                                                      classToPlainTransformOptions))
                      ELSE error
              IN  IF /\ action.emitOnFailFor.set
                     /\ action.emitOnFailFor.errorType # ""
                     /\ errorMatchesType(action.emitOnFailFor.errorType, error)
                  THEN Effect(<<Emit(socket, action.emitOnFailFor.value, transformedResult)>>, <<>>)
                  ELSE IF action.emitOnFail.set
                  THEN IF InstanceOfError(error) /\ ~transformedResult.own
                       THEN Effect(<<Emit(socket, action.emitOnFail.value, ErrorToString(error))>>, <<>>)
                       ELSE Effect(<<Emit(socket, action.emitOnFail.value, transformedResult)>>, <<>>)
                  ELSE Effect(<<Emit(socket, action.emitOnFailFor.value, transformedResult)>>, <<>>)
    ELSE IF ~Present(error) /\ ~action.skipEmitOnEmptyResult
    THEN IF action.emitOnFail.set
         THEN Effect(<<EmitEmpty(socket, action.emitOnFail.value)>>, <<>>)
         ELSE IF action.emitOnFailFor.set
         THEN Effect(<<EmitEmpty(socket, action.emitOnFailFor.value)>>, <<>>)
         ELSE Effect(<<>>, <<>>)
    ELSE Effect(<<>>, <<>>)

handleFailResult(error, action, socket, useCT) ==
    IF Present(error) /\ (action.emitOnFail.set \/ action.emitOnFailFor.set)
    THEN IF ~action.emitOnSuccess.set
         THEN \* action.emitOnSuccess.classTransformOptions with emitOnSuccess undefined
              Throws(TypeErrorOf("Cannot read property 'classTransformOptions' of undefined"))
         ELSE LET transformOptions == OrElse(action.emitOnSuccess.classTransformOptions,
                                             classToPlainTransformOptions)
                  transformedResult == IF useCT /\ InstanceOfObject(error)
                                       THEN classToPlain(error, transformOptions)
                                       ELSE error
              IN  IF /\ action.emitOnFailFor.set
                     /\ action.emitOnFailFor.errorType # ""
                     /\ errorMatchesType(action.emitOnFailFor.errorType, error)
                  THEN Effect(<<Emit(socket, action.emitOnFailFor.value, transformedResult)>>, <<>>)
                  ELSE IF action.emitOnFail.set
                  THEN IF InstanceOfError(error) /\ ~transformedResult.own
                       THEN Effect(<<Emit(socket, action.emitOnFail.value, ErrorToString(error))>>, <<>>)
                       ELSE Effect(<<Emit(socket, action.emitOnFail.value, transformedResult)>>, <<>>)
                  ELSE Effect(<<>>, <<>>)
    ELSE IF ~Present(error) /\ ~action.skipEmitOnEmptyResult
    THEN IF action.emitOnFail.set
         THEN Effect(<<EmitEmpty(socket, action.emitOnFail.value)>>, <<>>)
         ELSE IF action.emitOnFailFor.set
         THEN Effect(<<EmitEmpty(socket, action.emitOnFailFor.value)>>, <<>>)
         ELSE Effect(<<>>, <<>>)
    ELSE Effect(<<>>, <<>>)

(***************************************************************************)
(* handleAction: the in-place sort of action.params and the resolutions    *)
(***************************************************************************)
\* a parameter resolution: pending, or settled with a value
Pending == [st |-> "pending", val |-> Undefined]
Settled(r) == [st |-> IF r.ok THEN "ok" ELSE "err", val |-> r.val]

RECURSIVE InsertByIndex(_, _)
InsertByIndex(sorted, param) ==
    IF sorted = <<>> THEN <<param>>
    ELSE IF Head(sorted).index <= param.index
         THEN <<Head(sorted)>> \o InsertByIndex(Tail(sorted), param)
         ELSE <<param>> \o sorted

\* the params left in the order they were declared in
Unsorted(params) == params

\* params.sort((param1, param2) => param1.index - param2.index)
RECURSIVE SortByIndex(_)
SortByIndex(params) ==
    IF params = <<>> THEN <<>>
    ELSE InsertByIndex(SortByIndex(SubSeq(params, 1, Len(params) - 1)), params[Len(params)])

\* the value the map callback of handleAction returns for one parameter
ParamValue(param, socket) ==
    CASE param.type = "connected-socket" -> Fulfilled(Val("object", "Socket", socket, TRUE))
      [] param.type = "socket-io" -> Fulfilled(Val("object", "Server", "io", TRUE))
      [] param.type = "socket-query-param" -> Fulfilled(Val("string", "String", param.value, FALSE))
      [] param.type = "socket-id" -> Fulfilled(Val("string", "String", socket, FALSE))
      [] param.type = "socket-request" -> Fulfilled(Val("object", "IncomingMessage", socket, TRUE))
      [] param.type = "socket-rooms" -> Fulfilled(Val("object", "Object", socket, TRUE))

\* the promises of handleAction, in the order of the sorted params:
\* handleParam is async and settles later, the other values are there at once
ParamsPromises(params, socket) ==
    [k \in 1..Len(params) |->
        IF params[k].type \in SocketParamTypes
        THEN Settled(ParamValue(params[k], socket))
        ELSE Pending]

\* one invocation: handleAction(action, {socket, data}) and the chain on it
NewInvocation(a, acts, socket, data, fn) ==
    LET params == SortByIndex(acts[a].params)
    IN  [action |-> a, socket |-> socket, data |-> data, fn |-> fn,
         params |-> params,
         res |-> ParamsPromises(params, socket),
         rejection |-> [set |-> FALSE, val |-> Undefined],
         outOfOrder |-> FALSE,
         pc |-> "params",
         args |-> <<>>,
         outcome |-> [kind |-> "none", val |-> Undefined],
         successArg |-> [set |-> FALSE, val |-> Undefined],
         failArg |-> [set |-> FALSE, val |-> Undefined],
         emits |-> <<>>, acks |-> <<>>, ackFns |-> <<>>, unhandled |-> FALSE]

\* action.params after handleAction ran for action a
SortedIn(acts, a) == [acts EXCEPT ![a].params = SortByIndex(acts[a].params)]

\* the invocations started for the actions in `ids`, in order
RECURSIVE StartAll(_, _, _, _, _, _)
StartAll(ids, acts, invs, socket, data, fn) ==
    IF ids = <<>> THEN [actions |-> acts, inv |-> invs]
    ELSE StartAll(Tail(ids), SortedIn(acts, Head(ids)),
                  Append(invs, NewInvocation(Head(ids), acts, socket, data, fn)),
                  socket, data, fn)

\* the names of the message events a client can send
TransportEvents == {"save", "typing", "other"}

\* the sum of f over the elements of S
RECURSIVE Sum(_, _)
Sum(f, S) ==
    IF S = {} THEN 0
    ELSE LET x == CHOOSE y \in S : TRUE IN f[x] + Sum(f, S \ {x})

\* the indices of the actions of a type, in declaration order
ActionsOfType(acts, type) == SelectSeq([k \in 1..Len(acts) |-> k], LAMBDA k : acts[k].type = type)

\* every listener of a socket called for every event
ListenersForAnyEvent(socket, event) ==
    [k \in 1..Len(sockets[socket].listeners) |-> sockets[socket].listeners[k].action]

\* the actions listening on a socket for an event, in registration order
ListenersFor(socket, event) ==
    LET ls == SelectSeq(sockets[socket].listeners, LAMBDA l : l.event = event)
    IN  [k \in 1..Len(ls) |-> ls[k].action]

\* the listeners handleConnection registers on a socket
RegisteredListeners(acts) ==
    LET ks == SelectSeq([k \in 1..Len(acts) |-> k], LAMBDA k : acts[k].type # "connect")
    IN  [j \in 1..Len(ks) |->
            [event |-> IF acts[ks[j]].type = "disconnect" THEN "disconnect" ELSE acts[ks[j]].name,
             action |-> ks[j]]]

(***************************************************************************)
(* The promise chain of one invocation:                                    *)
(*   handleAction(..).then(handleSuccessResult).catch(handleFailResult)    *)
(***************************************************************************)
\* the .catch callback ran with error
AfterFail(rec, error, acts, useCT) ==
    LET eff == handleFailResult(error, acts[rec.action], rec.socket, useCT)
    IN  [rec EXCEPT !.pc = "done",
                    !.failArg = [set |-> TRUE, val |-> error],
                    !.emits = rec.emits \o eff.emits,
                    !.acks = rec.acks \o eff.acks,
                    !.unhandled = eff.threw]

\* the .then callback using the socket and fn of the latest event instead of
\* those of its own closure
AfterSuccessShared(rec, result, acts, useCT) ==
    LET last == inv[Len(inv)]
        eff == handleSuccessResult(result, acts[rec.action], last.socket, last.fn, useCT)
        done == [rec EXCEPT !.pc = "done",
                            !.successArg = [set |-> TRUE, val |-> result],
                            !.emits = rec.emits \o eff.emits,
                            !.acks = rec.acks \o eff.acks,
                            !.ackFns = rec.ackFns \o [k \in DOMAIN eff.acks |-> last.fn]]
    IN  IF eff.threw THEN AfterFail(done, eff.thrown, acts, useCT) ELSE done

\* the .then callback ran with result; what it throws goes to the .catch callback
\* (ackFns keeps the function each acknowledgment was made through: the fn of
\* the closure)
AfterSuccess(rec, result, acts, useCT) ==
    LET eff == handleSuccessResult(result, acts[rec.action], rec.socket, rec.fn, useCT)
        done == [rec EXCEPT !.pc = "done",
                            !.successArg = [set |-> TRUE, val |-> result],
                            !.emits = rec.emits \o eff.emits,
                            !.acks = rec.acks \o eff.acks,
                            !.ackFns = rec.ackFns \o [k \in DOMAIN eff.acks |-> rec.fn]]
    IN  IF eff.threw THEN AfterFail(done, eff.thrown, acts, useCT) ELSE done

(***************************************************************************)
(* Actions                                                                 *)
(***************************************************************************)
\* the number of message events socket s got
Received(s) == Sum(sockets[s].received, DOMAIN sockets[s].received)

\* io.on("connection", socket => handleConnection(controllers, socket))
Connection(s, cap) ==
    LET ids == ActionsOfType(actions, "connect")
        started == StartAll(ids, actions, inv, s, Undefined, "none")
    IN  /\ sockets[s].status = "new"
        /\ Len(inv) + Len(ids) <= cap
        /\ sockets' = [sockets EXCEPT ![s].status = "connected",
                                      ![s].listeners = RegisteredListeners(actions)]
        /\ actions' = started.actions
        /\ inv' = started.inv
        /\ UNCHANGED <<useClassTransformer, validate>>

\* the transport fires "disconnect" on the socket
Disconnect(s, cap) ==
    LET ids == ListenersFor(s, "disconnect")
        started == StartAll(ids, actions, inv, s, Undefined, "none")
    IN  /\ sockets[s].status = "connected"
        /\ Len(inv) + Len(ids) <= cap
        /\ sockets' = [sockets EXCEPT ![s].status = "disconnected"]
        /\ actions' = started.actions
        /\ inv' = started.inv
        /\ UNCHANGED <<useClassTransformer, validate>>

\* the transport fires the event `name` with (data, fn) on the socket
\* (received counts the message events the socket got, by name)
Message(s, name, data, fn, cap) ==
    LET ids == ListenersFor(s, name)
        started == StartAll(ids, actions, inv, s, data, fn)
    IN  /\ sockets[s].status = "connected"
        /\ Len(inv) + Len(ids) <= cap
        /\ Received(s) < cap
        /\ sockets' = [sockets EXCEPT ![s].received[name] = @ + 1]
        /\ actions' = started.actions
        /\ inv' = started.inv
        /\ UNCHANGED <<useClassTransformer, validate>>

\* the handleParam promise of parameter k of invocation i settles
\* (outOfOrder records that it settled before the promise of an earlier parameter)
ResolveParam(i, k) ==
    LET rec == inv[i]
        r == handleParam(rec.params[k], rec.data, rec.socket, useClassTransformer, validate)
    IN  /\ rec.res[k].st = "pending"
        /\ inv' = [inv EXCEPT ![i].res[k] = Settled(r),
                              ![i].outOfOrder = rec.outOfOrder \/ \E j \in 1..(k - 1) : rec.res[j].st = "pending",
                              ![i].rejection = IF ~r.ok /\ ~rec.rejection.set
                                               THEN [set |-> TRUE, val |-> r.val]
                                               ELSE rec.rejection]
        /\ UNCHANGED <<useClassTransformer, validate, actions, sockets>>

\* the handler called once every promise has settled, rejected or not
JoinParamsAllSettled(i) ==
    /\ inv[i].pc = "params"
    /\ \A k \in 1..Len(inv[i].res) : inv[i].res[k].st # "pending"
    /\ inv' = [inv EXCEPT ![i].pc = "handler",
                          ![i].args = [k \in 1..Len(inv[i].res) |-> inv[i].res[k].val]]
    /\ UNCHANGED <<useClassTransformer, validate, actions, sockets>>

\* Promise.all of an invocation waiting for every earlier invocation to finish
JoinParamsSerial(i) ==
    LET rec == inv[i]
    IN  /\ rec.pc = "params"
        /\ \A j \in 1..(i - 1) : inv[j].pc = "done"
        /\ \/ /\ rec.rejection.set
              /\ inv' = [inv EXCEPT ![i] = AfterFail(rec, rec.rejection.val, actions, useClassTransformer)]
           \/ /\ ~rec.rejection.set
              /\ \A k \in 1..Len(rec.res) : rec.res[k].st = "ok"
              /\ inv' = [inv EXCEPT ![i].pc = "handler",
                                    ![i].args = [k \in 1..Len(rec.res) |-> rec.res[k].val]]
        /\ UNCHANGED <<useClassTransformer, validate, actions, sockets>>

\* Promise.all settles: with the first rejection the chain goes to .catch,
\* with every value there the handler is called (action.executeAction(params))
JoinParams(i) ==
    LET rec == inv[i]
    IN  /\ rec.pc = "params"
        /\ \/ /\ rec.rejection.set
              /\ inv' = [inv EXCEPT ![i] = AfterFail(rec, rec.rejection.val, actions, useClassTransformer)]
           \/ /\ ~rec.rejection.set
              /\ \A k \in 1..Len(rec.res) : rec.res[k].st = "ok"
              /\ inv' = [inv EXCEPT ![i].pc = "handler",
                                    ![i].args = [k \in 1..Len(rec.res) |-> rec.res[k].val]]
        /\ UNCHANGED <<useClassTransformer, validate, actions, sockets>>

\* the handler fulfils with result
HandlerReturn(i, result) ==
    /\ inv[i].pc = "handler"
    /\ inv' = [inv EXCEPT ![i] = AfterSuccess([inv[i] EXCEPT !.outcome = [kind |-> "fulfilled", val |-> result]],
                                              result, actions, useClassTransformer)]
    /\ UNCHANGED <<useClassTransformer, validate, actions, sockets>>

\* the handler returned a promise that never settles
HandlerHang(i) ==
    /\ inv[i].pc = "handler"
    /\ inv' = [inv EXCEPT ![i].pc = "hung"]
    /\ UNCHANGED <<useClassTransformer, validate, actions, sockets>>

\* the handler rejects with error
HandlerThrow(i, error) ==
    /\ inv[i].pc = "handler"
    /\ inv' = [inv EXCEPT ![i] = AfterFail([inv[i] EXCEPT !.outcome = [kind |-> "rejected", val |-> error]],
                                           error, actions, useClassTransformer)]
    /\ UNCHANGED <<useClassTransformer, validate, actions, sockets>>

(***************************************************************************)
(* Registrations, payloads and handler outcomes                            *)
(***************************************************************************)
Param(index, type, reflectedType, transform, validateOption) ==
    [index |-> index, type |-> type, value |-> IF type = "socket-query-param" THEN "token" ELSE "",
     reflectedType |-> reflectedType, transform |-> transform,
     validate |-> validateOption, classTransformOptions |-> ""]

\* save(@ConnectedSocket() socket, @MessageBody() message: CreateMessageDto):
\* parameter decorators run from the last parameter to the first
SaveParams ==
    <<Param(1, "socket-body", "CreateMessageDto", FALSE, "undefined"),
      Param(0, "connected-socket", "", FALSE, "undefined")>>

ActionMetadata(type, params, onSuccess, onFail, onFailFor, skip) ==
    [type |-> type, name |-> IF type = "message" THEN "save" ELSE "",
     params |-> params, emitOnSuccess |-> onSuccess, emitOnFail |-> onFail,
     emitOnFailFor |-> onFailFor, skipEmitOnEmptyResult |-> skip]

SuccessPolicies ==
    {NoPolicy, Policy("save/success", "", ""), Policy("save/success", "successToPlain", "")}
FailPolicies == {NoPolicy, Policy("save/error", "", "")}
FailForPolicies ==
    {NoPolicy, Policy("save/validation_error", "", "ValidationException"),
     Policy("save/validation_error", "", LazyValidationException)}

\* every action kind with every combination of result handlers
RouterActions ==
    {ActionMetadata(type, SaveParams, onSuccess, onFail, onFailFor, skip) :
        type \in ActionTypes, onSuccess \in SuccessPolicies, onFail \in FailPolicies,
        onFailFor \in FailForPolicies, skip \in BOOLEAN}

ValidJson == Str("{\"text\":\"hi\",\"author\":\"me\"}")
OneErrorJson == Str("{\"text\":\"\",\"author\":\"me\"}")
TwoErrorsJson == Str("{\"text\":\"\"}")
MalformedJson == Str("{bad")

\* payloads a client sends with "save"
RouterData == {ValidJson, TwoErrorsJson, MalformedJson}

\* the acknowledgment callback of an event: absent or a function
Callbacks == {"none", "fn"}

EventNames == {"save"}

\* what a handler fulfils with, and what it rejects with
HandlerResults == {Undefined, Null, Str("ok"), Instance("Message", "id=1")}
HandlerErrors ==
    {Undefined, Null, ValidationException(<<"text.isNotEmpty">>), GenericError("boom"),
     CustomError("denied"), Str("oops")}

\* the connections the transport will hand to handleConnection
NoSockets(ids) ==
    [s \in ids |-> [status |-> "new", listeners |-> <<>>,
                    received |-> [name \in TransportEvents |-> 0]]]

Init ==
    /\ useClassTransformer \in BOOLEAN
    /\ validate \in BOOLEAN
    /\ actions \in {<<a>> : a \in RouterActions}
    /\ sockets = NoSockets({"s1"})
    /\ inv = <<>>

Next ==
    \/ \E s \in DOMAIN sockets : Connection(s, MaxInv)
    \/ \E s \in DOMAIN sockets : Disconnect(s, MaxInv)
    \/ \E s \in DOMAIN sockets, name \in EventNames, data \in RouterData, fn \in Callbacks :
          Message(s, name, data, fn, MaxInv)
    \/ \E i \in DOMAIN inv : \E k \in DOMAIN inv[i].res : ResolveParam(i, k)
    \/ \E i \in DOMAIN inv : JoinParams(i)
    \/ \E i \in DOMAIN inv, result \in HandlerResults : HandlerReturn(i, result)
    \/ \E i \in DOMAIN inv, error \in HandlerErrors : HandlerThrow(i, error)

Spec == Init /\ [][Next]_vars

(***************************************************************************)
(* Registrations for the parameter resolver: one message action "save"     *)
(* with the result handlers of the sample and every parameter list below   *)
(***************************************************************************)
\* every descriptor a decorator can produce
ParamPool ==
    {Param(0, type, "", transform, "undefined") :
        type \in SocketParamTypes \cup {"custom"}, transform \in BOOLEAN}
    \cup {Param(0, "socket-body", reflected, transform, "undefined") :
        reflected \in ReflectedTypes, transform \in BOOLEAN}
    \cup {Param(0, "socket-body", "CreateMessageDto", transform, option) :
        transform \in BOOLEAN, option \in {"true", "false"}}

\* the descriptors combined in lists of several parameters
ListPool ==
    {Param(0, "connected-socket", "", FALSE, "undefined"),
     Param(0, "socket-body", "CreateMessageDto", FALSE, "undefined"),
     Param(0, "socket-body", "", TRUE, "undefined")}

\* the sequences of n elements of S
SeqsOf(S, n) == [1..n -> S]

Distinct(f) == \A j, k \in DOMAIN f : j # k => f[j] # f[k]

\* the descriptors `ps` declared at the parameter positions `ix`
WithIndexes(ps, ix) == [k \in DOMAIN ps |-> [ps[k] EXCEPT !.index = ix[k]]]

\* the orders in which n parameters can be declared
DeclarationOrders(n) == {f \in SeqsOf(0..(n - 1), n) : Distinct(f)}

\* one parameter at the first or at a later position of the handler's signature
\* (undecorated parameters leave gaps), and every list of several parameters
\* declared in any order
ParamLists ==
    {WithIndexes(<<p>>, <<x>>) : p \in ParamPool, x \in {0, MaxIndex}}
    \cup UNION {{WithIndexes(ps, ix) : ps \in SeqsOf(ListPool, n), ix \in DeclarationOrders(n)} :
                    n \in 2..MaxParams}

SaveSuccess == Policy("save/success", "", "")
SaveFail == Policy("save/error", "", "")
SaveFailFor == Policy("save/validation_error", "", "ValidationException")

ParamActions ==
    {ActionMetadata("message", params, SaveSuccess, SaveFail, SaveFailFor, FALSE) :
        params \in ParamLists}

\* payloads for the parameter resolver
ParamData ==
    {Undefined, ValidJson, TwoErrorsJson, MalformedJson, PlainObj("text=,author=me")}

InitParams ==
    /\ useClassTransformer \in BOOLEAN
    /\ validate \in BOOLEAN
    /\ actions \in {<<a>> : a \in ParamActions}
    /\ sockets = NoSockets({"s1"})
    /\ inv = <<>>

NextParams ==
    \/ \E s \in DOMAIN sockets : Connection(s, MaxInv)
    \/ \E s \in DOMAIN sockets : Disconnect(s, MaxInv)
    \/ \E s \in DOMAIN sockets, name \in EventNames, data \in ParamData :
          Message(s, name, data, "none", MaxInv)
    \/ \E i \in DOMAIN inv : \E k \in DOMAIN inv[i].res : ResolveParam(i, k)
    \/ \E i \in DOMAIN inv : JoinParams(i)
    \/ \E i \in DOMAIN inv : HandlerReturn(i, Str("ok"))
    \/ \E i \in DOMAIN inv : HandlerThrow(i, GenericError("boom"))

SpecParams == InitParams /\ [][NextParams]_vars

(***************************************************************************)
(* Type coercion of a message body                                         *)
(***************************************************************************)
\* one message-body parameter of each declared type
CoerceActions ==
    {ActionMetadata("message", <<Param(0, "socket-body", reflected, FALSE, "undefined")>>,
                    SaveSuccess, SaveFail, SaveFailFor, FALSE) :
        reflected \in ReflectedTypes}

\* raw payloads of a message event
CoerceData ==
    {Undefined, Null, Str(""), Str("true"), Str("false"), Str("1"), Str("0"), Str("abc"),
     Num("0"), Num("1"), Bool(TRUE), Bool(FALSE), PlainObj("")}

InitCoerce ==
    /\ useClassTransformer \in BOOLEAN
    /\ validate \in BOOLEAN
    /\ actions \in {<<a>> : a \in CoerceActions}
    /\ sockets = NoSockets({"s1"})
    /\ inv = <<>>

NextCoerce ==
    \/ \E s \in DOMAIN sockets : Connection(s, MaxInv)
    \/ \E s \in DOMAIN sockets : Disconnect(s, MaxInv)
    \/ \E s \in DOMAIN sockets, name \in EventNames, data \in CoerceData :
          Message(s, name, data, "none", MaxInv)
    \/ \E i \in DOMAIN inv : \E k \in DOMAIN inv[i].res : ResolveParam(i, k)
    \/ \E i \in DOMAIN inv : JoinParams(i)
    \/ \E i \in DOMAIN inv : HandlerReturn(i, Str("ok"))
    \/ \E i \in DOMAIN inv : HandlerThrow(i, GenericError("boom"))

SpecCoerce == InitCoerce /\ [][NextCoerce]_vars

(***************************************************************************)
(* Dispatch of the transport's events to the actions of a controller       *)
(***************************************************************************)
\* an action of each type with one message-body parameter
DispatchAction(type, name) ==
    [ActionMetadata(type, <<Param(0, "socket-body", "CreateMessageDto", FALSE, "undefined")>>,
                    SaveSuccess, SaveFail, SaveFailFor, FALSE) EXCEPT !.name = name]

\* controllers: their actions in declaration order
DispatchControllers ==
    {<<DispatchAction("message", "save")>>,
     <<DispatchAction("connect", ""), DispatchAction("message", "save")>>,
     <<DispatchAction("connect", ""), DispatchAction("message", "save"),
       DispatchAction("disconnect", "")>>,
     <<DispatchAction("message", "save"), DispatchAction("message", "other"),
       DispatchAction("connect", "")>>,
     <<DispatchAction("disconnect", ""), DispatchAction("message", "save"),
       DispatchAction("message", "save")>>}

InitDispatch ==
    /\ useClassTransformer = TRUE
    /\ validate = TRUE
    /\ actions \in DispatchControllers
    /\ sockets = NoSockets({"s1", "s2"})
    /\ inv = <<>>

NextDispatch ==
    \/ \E s \in DOMAIN sockets : Connection(s, MaxDispatch)
    \/ \E s \in DOMAIN sockets : Disconnect(s, MaxDispatch)
    \/ \E s \in DOMAIN sockets, name \in {"save", "other"}, data \in {ValidJson, MalformedJson} :
          Message(s, name, data, "none", MaxDispatch)
    \/ \E i \in DOMAIN inv : \E k \in DOMAIN inv[i].res : ResolveParam(i, k)
    \/ \E i \in DOMAIN inv : JoinParams(i)
    \/ \E i \in DOMAIN inv : HandlerReturn(i, Str("ok"))

SpecDispatch == InitDispatch /\ [][NextDispatch]_vars

(***************************************************************************)
(* Overlapping invocations of one message action                           *)
(***************************************************************************)
\* save with one message-body parameter, with and without emit-on-success
OverlapActions ==
    {ActionMetadata("message", <<Param(0, "socket-body", "CreateMessageDto", FALSE, "undefined")>>,
                    onSuccess, SaveFail, NoPolicy, FALSE) :
        onSuccess \in {NoPolicy, SaveSuccess}}

\* the acknowledgment functions the transport creates, one per event
AckFunctions == <<"ack1", "ack2", "ack3", "ack4">>

\* the function created for the next event
NewAck == AckFunctions[Len(inv) + 1]

InitOverlap ==
    /\ useClassTransformer = TRUE
    /\ validate = TRUE
    /\ actions \in {<<a>> : a \in OverlapActions}
    /\ sockets = NoSockets({"s1", "s2"})
    /\ inv = <<>>

NextOverlap ==
    \/ \E s \in DOMAIN sockets : Connection(s, MaxOverlap)
    \/ \E s \in DOMAIN sockets : Disconnect(s, MaxOverlap)
    \/ \E s \in DOMAIN sockets, fn \in {"none", NewAck} :
          Message(s, "save", ValidJson, fn, MaxOverlap)
    \/ \E i \in DOMAIN inv : \E k \in DOMAIN inv[i].res : ResolveParam(i, k)
    \/ \E i \in DOMAIN inv : JoinParams(i)
    \/ \E i \in DOMAIN inv, result \in {Undefined, Str("ok"), Instance("Message", "id=1")} :
          HandlerReturn(i, result)
    \/ \E i \in DOMAIN inv : HandlerThrow(i, GenericError("boom"))

SpecOverlap == InitOverlap /\ [][NextOverlap]_vars

(***************************************************************************)
(* Handlers that never settle                                              *)
(***************************************************************************)
InitHang ==
    /\ useClassTransformer = TRUE
    /\ validate = TRUE
    /\ actions = <<ActionMetadata("message",
                                   <<Param(0, "socket-body", "CreateMessageDto", FALSE, "undefined")>>,
                                   SaveSuccess, SaveFail, SaveFailFor, FALSE)>>
    /\ sockets = NoSockets({"s1", "s2"})
    /\ inv = <<>>

NextHang ==
    \/ \E s \in DOMAIN sockets : Connection(s, MaxOverlap)
    \/ \E s \in DOMAIN sockets : Disconnect(s, MaxOverlap)
    \/ \E s \in DOMAIN sockets : Message(s, "save", ValidJson, "none", MaxOverlap)
    \/ \E i \in DOMAIN inv : \E k \in DOMAIN inv[i].res : ResolveParam(i, k)
    \/ \E i \in DOMAIN inv : JoinParams(i)
    \/ \E i \in DOMAIN inv : HandlerReturn(i, Str("ok"))
    \/ \E i \in DOMAIN inv : HandlerThrow(i, GenericError("boom"))
    \/ \E i \in DOMAIN inv : HandlerHang(i)

\* the steps the event loop takes for invocation i: a handleParam promise
\* settles, the Promise.all callbacks run, the handler call ends (settled, or
\* with a promise that stays pending)
Progress(i) ==
    /\ i \in DOMAIN inv
    /\ \/ \E k \in DOMAIN inv[i].res : ResolveParam(i, k)
       \/ JoinParams(i)
       \/ HandlerReturn(i, Str("ok"))
       \/ HandlerThrow(i, GenericError("boom"))
       \/ HandlerHang(i)

SpecHang ==
    InitHang /\ [][NextHang]_vars /\ \A i \in 1..MaxOverlap : WF_vars(Progress(i))

(***************************************************************************)
(* The second argument of a message event as the client sent it            *)
(***************************************************************************)
\* fn of socket.on(action.name, (data, fn) => ...): nothing, the acknowledgment
\* function, or whatever else the client put after the data
AckArguments == Callbacks \cup {NotCallable}

NextAck ==
    \/ \E s \in DOMAIN sockets : Connection(s, MaxInv)
    \/ \E s \in DOMAIN sockets : Disconnect(s, MaxInv)
    \/ \E s \in DOMAIN sockets, name \in EventNames, fn \in AckArguments :
          Message(s, name, ValidJson, fn, MaxInv)
    \/ \E i \in DOMAIN inv : \E k \in DOMAIN inv[i].res : ResolveParam(i, k)
    \/ \E i \in DOMAIN inv : JoinParams(i)
    \/ \E i \in DOMAIN inv, result \in {Undefined, Str("ok")} : HandlerReturn(i, result)
    \/ \E i \in DOMAIN inv : HandlerThrow(i, GenericError("boom"))

SpecAck == Init /\ [][NextAck]_vars

(***************************************************************************)
(* Properties                                                              *)
(***************************************************************************)
\* the action of an invocation
ActionOf(r) == actions[r.action]

\* the .then callback / the .catch callback of the invocation has run
Succeeded(r) == r.successArg.set
Failed(r) == r.failArg.set

\* C1: every dispatch settles without rejection: for every action kind, every
\* combination of result handlers and every outcome, handleFailResult does not
\* throw, so no chain started by handleConnection ends rejected.
C1_NoUnhandledRejection ==
    \A i \in DOMAIN inv : ~inv[i].unhandled

\* the failure of invocation r is a present error that the emit-on-fail-for type matches
FailForMatches(r) ==
    /\ Failed(r) /\ Present(r.failArg.val)
    /\ ActionOf(r).emitOnFailFor.set
    /\ ActionOf(r).emitOnFailFor.errorType # ""
    /\ errorMatchesType(ActionOf(r).emitOnFailFor.errorType, r.failArg.val)

\* C2: a failure with a present error whose type the emit-on-fail-for handler
\* matches, on an action that also has emit-on-fail, emits exactly one event, on
\* the emit-on-fail-for name, and none on the emit-on-fail name.
C2_OnlyFailForEmitted ==
    \A i \in DOMAIN inv :
        (FailForMatches(inv[i]) /\ ActionOf(inv[i]).emitOnFail.set)
            => /\ Len(inv[i].emits) = 1
               /\ inv[i].emits[1].event = ActionOf(inv[i]).emitOnFailFor.value
               /\ inv[i].emits[1].socket = inv[i].socket
               /\ \A k \in DOMAIN inv[i].emits :
                     inv[i].emits[k].event # ActionOf(inv[i]).emitOnFail.value

\* the payload of an emit-on-fail emission of error e
FailPayload(e, action) ==
    LET serialized == IF useClassTransformer /\ InstanceOfObject(e)
                      THEN classToPlain(e, OrElse(action.emitOnSuccess.classTransformOptions,
                                                  classToPlainTransformOptions))
                      ELSE e
    IN  IF InstanceOfError(e) /\ ~serialized.own THEN ErrorToString(e) ELSE serialized

\* C3: a failure with a present error, on an action with emit-on-fail whose
\* emit-on-fail-for (if any) does not match, emits exactly one event on the
\* emit-on-fail name carrying the serialized error (its string form for a generic
\* Error without own fields), with or without an emit-on-success handler.
C3_FailEmitted ==
    \A i \in DOMAIN inv :
        (/\ Failed(inv[i]) /\ Present(inv[i].failArg.val)
         /\ ActionOf(inv[i]).emitOnFail.set
         /\ ~FailForMatches(inv[i]))
            => inv[i].emits = <<Emit(inv[i].socket, ActionOf(inv[i]).emitOnFail.value,
                                      FailPayload(inv[i].failArg.val, ActionOf(inv[i])))>>

\* C4 as stated: with an emit-on-success handler declared, the acknowledgment
\* callback is never invoked for a successful outcome, whatever the result and
\* whatever skipEmitOnEmptyResult.
C4_NeverAckWithSuccessPolicy ==
    \A i \in DOMAIN inv :
        (Succeeded(inv[i]) /\ ActionOf(inv[i]).emitOnSuccess.set) => inv[i].acks = <<>>

\* C4 (amended): with an emit-on-success handler declared, the acknowledgment
\* callback is not invoked for a successful outcome, except when the result is
\* absent and skipEmitOnEmptyResult is set: then a supplied callback is invoked
\* once with "received" and nothing is emitted.
C4_AckOnlyWhenEmitSkipped ==
    \A i \in DOMAIN inv :
        (Succeeded(inv[i]) /\ ActionOf(inv[i]).emitOnSuccess.set)
            => IF /\ ~Present(inv[i].successArg.val)
                  /\ ActionOf(inv[i]).skipEmitOnEmptyResult
                  /\ inv[i].fn # "none"
               THEN inv[i].acks = <<Str("received")>> /\ inv[i].emits = <<>>
               ELSE inv[i].acks = <<>>

\* C4 witness: a message with a callback succeeded on an action with emit-on-success,
\* with a present result
C4_Witness ==
    \E i \in DOMAIN inv :
        /\ Succeeded(inv[i]) /\ ActionOf(inv[i]).emitOnSuccess.set
        /\ inv[i].fn = "fn" /\ Present(inv[i].successArg.val)
        /\ Len(inv[i].emits) = 1

\* C5: a message handler that succeeds with a present value, on an action without
\* emit-on-success and with a callback supplied, has the callback invoked exactly
\* once with that value, and emits nothing.
C5_AckWithValue ==
    \A i \in DOMAIN inv :
        (/\ Succeeded(inv[i]) /\ Present(inv[i].successArg.val)
         /\ ~ActionOf(inv[i]).emitOnSuccess.set
         /\ inv[i].fn # "none")
            => inv[i].acks = <<inv[i].outcome.val>> /\ inv[i].emits = <<>>

\* C5 witness: a callback answered with the Message instance the handler returned
C5_Witness ==
    \E i \in DOMAIN inv :
        /\ Succeeded(inv[i]) /\ inv[i].outcome.val = Instance("Message", "id=1")
        /\ ~ActionOf(inv[i]).emitOnSuccess.set
        /\ inv[i].fn = "fn"
        /\ inv[i].acks # <<>>

C7_SuccessEmitted ==
    \A i \in DOMAIN inv :
        (/\ Succeeded(inv[i]) /\ Present(inv[i].successArg.val)
         /\ ActionOf(inv[i]).emitOnSuccess.set)
            => LET v == inv[i].outcome.val
                   options == OrElse(ActionOf(inv[i]).emitOnSuccess.classTransformOptions,
                                     classToPlainTransformOptions)
               IN  /\ Len(inv[i].emits) = 1
                   /\ inv[i].emits[1].socket = inv[i].socket
                   /\ inv[i].emits[1].event = ActionOf(inv[i]).emitOnSuccess.value
                   /\ inv[i].emits[1].hasPayload
                   /\ inv[i].emits[1].payload =
                         IF useClassTransformer /\ v.t = "object"
                         THEN [t |-> "object", cls |-> "Object", v |-> v.v, own |-> v.own,
                               errors |-> v.errors, opts |-> options, tf |-> v.tf]
                         ELSE v

\* C7 witness: a Message instance emitted in its plain form
C7_Witness ==
    \E i \in DOMAIN inv :
        /\ Succeeded(inv[i]) /\ inv[i].outcome.val = Instance("Message", "id=1")
        /\ ActionOf(inv[i]).emitOnSuccess.set
        /\ useClassTransformer
        /\ Len(inv[i].emits) = 1
        /\ inv[i].emits[1].payload.cls = "Object"

\* the handler of the invocation has been called
Called(r) == r.pc = "handler" \/ r.outcome.kind # "none"

\* every violated constraint of the instance the payload maps to
AllErrors(data) ==
    ValidateInstance(IF data.t = "string" THEN JsonParse(data.v).val ELSE data)

\* C8: when the resolution of a parameter fails (JSON parse failure or validation
\* failure), the handler is never called for that invocation and the failure is
\* what handleFailResult of that invocation receives; a validation failure
\* carries every validation error.
C8_FailedResolutionSkipsHandler ==
    \A i \in DOMAIN inv :
        (\E k \in DOMAIN inv[i].res : inv[i].res[k].st = "err")
            => /\ inv[i].rejection.set
               /\ ~Called(inv[i]) /\ inv[i].args = <<>> /\ ~Succeeded(inv[i])
               /\ inv[i].rejection.val.cls \in {"ParameterParseJsonError", "ValidationException"}
               /\ inv[i].pc = "done" => inv[i].failArg = inv[i].rejection
               /\ inv[i].rejection.val.cls = "ValidationException"
                     => /\ inv[i].rejection.val.errors = AllErrors(inv[i].data)
                        /\ inv[i].rejection.val.errors # <<>>

\* C8 witness: a validation failure with two errors delivered to handleFailResult,
\* the handler not called
C8_Witness ==
    \E i \in DOMAIN inv :
        /\ inv[i].pc = "done" /\ ~Called(inv[i])
        /\ inv[i].failArg.set
        /\ inv[i].failArg.val.cls = "ValidationException"
        /\ Len(inv[i].failArg.val.errors) = 2

\* the descriptor of `params` that has exactly k - 1 descriptors of smaller index
Ranked(params, k) ==
    LET ps == {params[j] : j \in DOMAIN params}
    IN  CHOOSE p \in ps : Cardinality({q \in ps : q.index < p.index}) = k - 1

\* the value a descriptor resolves to, before any transform
RawValue(p, r) ==
    IF p.type \in SocketParamTypes
    THEN ParamValue(p, r.socket).val
    ELSE handleParam([p EXCEPT !.transform = FALSE], r.data, r.socket,
                     useClassTransformer, validate).val

\* the value a descriptor resolves to
ResolvedValue(p, r) ==
    IF p.type \in SocketParamTypes
    THEN ParamValue(p, r.socket).val
    ELSE handleParam(p, r.data, r.socket, useClassTransformer, validate).val

\* C9: whatever the order the descriptors are declared in and whatever the order
\* the resolutions complete in, the k-th argument of the handler is the resolved
\* value of the descriptor with the k-th smallest index.
C9_ArgsInIndexOrder ==
    \A i \in DOMAIN inv :
        Called(inv[i])
            => /\ Len(inv[i].args) = Len(ActionOf(inv[i]).params)
               /\ \A k \in DOMAIN inv[i].args :
                     inv[i].args[k] = ResolvedValue(Ranked(ActionOf(inv[i]).params, k), inv[i])

\* C9 witness: a handler called with two different asynchronously resolved
\* arguments, the later one resolved first
C9_Witness ==
    \E i \in DOMAIN inv :
        /\ Called(inv[i]) /\ inv[i].outOfOrder
        /\ Len(inv[i].args) >= 2
        /\ inv[i].args[1] # inv[i].args[2]

\* C10 as stated: every descriptor with a transform function, whatever its source
\* kind, passes transform(resolvedValue, socket) to the handler.
C10_TransformForEveryKind ==
    \A i \in DOMAIN inv :
        Called(inv[i])
            => \A k \in DOMAIN inv[i].args :
                  inv[i].params[k].transform
                      => inv[i].args[k] = ApplyTransform(RawValue(inv[i].params[k], inv[i]), inv[i].socket)

\* C10 (amended): a descriptor with a transform function passes
\* transform(resolvedValue, socket) to the handler when it is resolved by
\* handleParam (message-body, custom); for the six socket kinds handled in
\* handleAction itself the transform is not applied and the raw value is passed.
C10_TransformInHandleParamOnly ==
    \A i \in DOMAIN inv :
        Called(inv[i])
            => \A k \in DOMAIN inv[i].args :
                  inv[i].params[k].transform
                      => inv[i].args[k] =
                            IF inv[i].params[k].type \in SocketParamTypes
                            THEN RawValue(inv[i].params[k], inv[i])
                            ELSE ApplyTransform(RawValue(inv[i].params[k], inv[i]), inv[i].socket)

\* C10 witness: a handler called with a transformed CreateMessageDto instance
C10_Witness ==
    \E i \in DOMAIN inv :
        /\ Called(inv[i])
        /\ \E k \in DOMAIN inv[i].args :
              /\ inv[i].params[k].transform
              /\ inv[i].params[k].type = "socket-body"
              /\ inv[i].params[k].reflectedType = "CreateMessageDto"
              /\ inv[i].args[k].cls = "CreateMessageDto"
              /\ inv[i].args[k].tf = inv[i].socket

\* C11: an error whose runtime type is the type an emit-on-fail-for policy refers
\* to matches that policy, whether the type is given directly or lazily as a
\* function returning it (resolved at match time): the failure is emitted on the
\* emit-on-fail-for event name.
C11_LazyTypeMatches ==
    \A i \in DOMAIN inv :
        (/\ Failed(inv[i]) /\ Present(inv[i].failArg.val)
         /\ ActionOf(inv[i]).emitOnFailFor.set
         /\ ActionOf(inv[i]).emitOnSuccess.set
         /\ Referent(ActionOf(inv[i]).emitOnFailFor.errorType) = inv[i].failArg.val.cls)
            => /\ errorMatchesType(ActionOf(inv[i]).emitOnFailFor.errorType, inv[i].failArg.val)
               /\ Len(inv[i].emits) = 1
               /\ inv[i].emits[1].event = ActionOf(inv[i]).emitOnFailFor.value

\* C12: a failure without error value (null or undefined) emits, when
\* skipEmitOnEmptyResult is false, exactly one event without payload: on the
\* emit-on-fail name if that handler exists, otherwise on the emit-on-fail-for
\* name if that one exists; with skipEmitOnEmptyResult set, or with neither
\* handler, it emits nothing.
C12_EmptyFailure ==
    \A i \in DOMAIN inv :
        (Failed(inv[i]) /\ ~Present(inv[i].failArg.val))
            => inv[i].emits =
                  IF ActionOf(inv[i]).skipEmitOnEmptyResult THEN <<>>
                  ELSE IF ActionOf(inv[i]).emitOnFail.set
                  THEN <<[socket |-> inv[i].socket, event |-> "save/error",
                          hasPayload |-> FALSE, payload |-> Undefined]>>
                  ELSE IF ActionOf(inv[i]).emitOnFailFor.set
                  THEN <<[socket |-> inv[i].socket, event |-> "save/validation_error",
                          hasPayload |-> FALSE, payload |-> Undefined]>>
                  ELSE <<>>

\* C12 witness: a handler rejected with undefined on an action with both failure
\* handlers, and "save/error" was emitted without payload
C12_Witness ==
    \E i \in DOMAIN inv :
        /\ Failed(inv[i]) /\ inv[i].failArg.val = Undefined
        /\ ActionOf(inv[i]).emitOnFail.set /\ ActionOf(inv[i]).emitOnFailFor.set
        /\ ~ActionOf(inv[i]).skipEmitOnEmptyResult
        /\ Len(inv[i].emits) = 1
        /\ inv[i].emits[1].event = "save/error"
        /\ ~inv[i].emits[1].hasPayload

\* the emit-on-fail-for handler of invocation r names the type of its error
FailForRefersTo(r) ==
    /\ ActionOf(r).emitOnFailFor.set
    /\ Referent(ActionOf(r).emitOnFailFor.errorType) = r.failArg.val.cls

\* C20: a failed invocation emits at most one event, and none when the error is
\* present and no failure handler applies to it: neither emit-on-fail nor
\* emit-on-fail-for is declared, or only emit-on-fail-for is declared and its
\* type does not match the error.
C20_AtMostOneFailureEvent ==
    \A i \in DOMAIN inv :
        Failed(inv[i])
            => /\ Len(inv[i].emits) <= 1
               /\ inv[i].acks = <<>>
               /\ (/\ Present(inv[i].failArg.val)
                   /\ ~ActionOf(inv[i]).emitOnFail.set
                   /\ ~FailForRefersTo(inv[i]))
                     => inv[i].emits = <<>>

\* C20 witness: a generic Error on an action with emit-on-success and only
\* emit-on-fail-for(ValidationException): nothing emitted
C20_Witness ==
    \E i \in DOMAIN inv :
        /\ Failed(inv[i]) /\ inv[i].failArg.val = GenericError("boom")
        /\ ActionOf(inv[i]).emitOnSuccess.set
        /\ ActionOf(inv[i]).emitOnFailFor.set /\ ~ActionOf(inv[i]).emitOnFail.set
        /\ inv[i].pc = "done" /\ ~inv[i].unhandled
        /\ inv[i].emits = <<>>

\* C16: dispatching never modifies a controller registration: no step changes
\* the parameter descriptor list of an action, neither its descriptors nor
\* their order.
C16_RegistrationImmutable == [][actions' = actions]_vars

\* validate of the descriptor when defined, the global default otherwise
EffectiveValidate(p) ==
    IF p.validate # "undefined" THEN p.validate = "true" ELSE validate

\* the payload reaches parseParamValue and parses
Parseable(data) ==
    /\ Present(data) /\ data # Str("") /\ Truthy(data)
    /\ data.t = "string" => JsonParse(data.v).ok

\* C18: for a message-body parameter of a declared class with class-transformer
\* enabled, the resolution fails with a ValidationException exactly when the
\* effective flag (the parameter's validate option when defined, the global
\* default otherwise) is true and the mapped instance violates a constraint;
\* with the effective flag false it never fails with a ValidationException.
C18_ValidationByEffectiveFlag ==
    \A i \in DOMAIN inv : \A k \in DOMAIN inv[i].res :
        (/\ inv[i].params[k].type = "socket-body"
         /\ inv[i].params[k].reflectedType = "CreateMessageDto"
         /\ useClassTransformer
         /\ inv[i].res[k].st # "pending")
            => /\ (inv[i].res[k].st = "err" /\ inv[i].res[k].val.cls = "ValidationException")
                    <=> /\ EffectiveValidate(inv[i].params[k])
                        /\ Parseable(inv[i].data)
                        /\ AllErrors(inv[i].data) # <<>>
               /\ (~EffectiveValidate(inv[i].params[k]) /\ Parseable(inv[i].data))
                    => /\ inv[i].res[k].st = "ok"
                       /\ inv[i].res[k].val.cls = "CreateMessageDto"

\* C18 witness: the global default is true, the parameter says validate: false,
\* and an instance with two violated constraints resolved without failure
C18_Witness ==
    \E i \in DOMAIN inv : \E k \in DOMAIN inv[i].res :
        /\ validate /\ useClassTransformer
        /\ inv[i].params[k].type = "socket-body"
        /\ inv[i].params[k].reflectedType = "CreateMessageDto"
        /\ inv[i].params[k].validate = "false"
        /\ inv[i].data = TwoErrorsJson
        /\ inv[i].res[k].st = "ok"
        /\ inv[i].res[k].val.cls = "CreateMessageDto"

\* C19: within one invocation the success path and the failure path exclude
\* each other: handleFailResult runs only when parameter resolution or the
\* handler rejected, never after handleSuccessResult has started for the same
\* invocation, and no invocation both acknowledges or emits a success and
\* emits a failure event.
C19_ExclusivePaths ==
    \A i \in DOMAIN inv :
        Failed(inv[i])
            => /\ ~Succeeded(inv[i])
               /\ inv[i].rejection.set \/ inv[i].outcome.kind = "rejected"
               /\ inv[i].acks = <<>>
               /\ \A k \in DOMAIN inv[i].emits : inv[i].emits[k].event # "save/success"

\* C13: a message-body parameter of declared type boolean resolves "true" to
\* true, "false" to false, any other non-empty value to its truthiness ("1"
\* gives true), and passes null, undefined and the empty string to the handler
\* unchanged.
C13_BooleanCoercion ==
    \A i \in DOMAIN inv : \A k \in DOMAIN inv[i].res :
        (/\ inv[i].params[k].type = "socket-body"
         /\ inv[i].params[k].reflectedType = "Boolean"
         /\ ~inv[i].params[k].transform
         /\ inv[i].res[k].st # "pending")
            => /\ inv[i].res[k].st = "ok"
               /\ inv[i].res[k].val =
                     IF inv[i].data = Str("true") THEN Bool(TRUE)
                     ELSE IF inv[i].data = Str("false") THEN Bool(FALSE)
                     ELSE IF inv[i].data \in {Null, Undefined, Str("")} THEN inv[i].data
                     ELSE Bool(Truthy(inv[i].data))
               /\ inv[i].data = Str("1") => inv[i].res[k].val = Bool(TRUE)
               /\ Called(inv[i]) => inv[i].args[k] = inv[i].res[k].val

\* C13 witness: the handler of a boolean parameter called with false for the
\* payload "false"
C13_Witness ==
    \E i \in DOMAIN inv :
        /\ Called(inv[i])
        /\ inv[i].params[1].reflectedType = "Boolean"
        /\ inv[i].data = Str("false")
        /\ inv[i].args = <<Bool(FALSE)>>

\* the invocations of action a started for socket s
InvocationsOf(s, a) == {i \in DOMAIN inv : inv[i].socket = s /\ inv[i].action = a}

\* how many times socket s received the message event `name`
Occurrences(s, name) == IF name \in TransportEvents THEN sockets[s].received[name] ELSE 0

\* C14: on every connection, a connect action is invoked exactly once, when the
\* connection is established; a disconnect action exactly once per disconnect
\* event and never before it; a message action exactly once per received
\* occurrence of its event name and never for an event of another name; the
\* handler is called at most once per invocation, and only with its parameters
\* resolved.
C14_OncePerEvent ==
    \A s \in DOMAIN sockets : \A a \in DOMAIN actions :
        /\ Cardinality(InvocationsOf(s, a)) =
              CASE actions[a].type = "connect" -> IF sockets[s].status # "new" THEN 1 ELSE 0
                [] actions[a].type = "disconnect" ->
                      IF sockets[s].status = "disconnected" THEN 1 ELSE 0
                [] OTHER -> Occurrences(s, actions[a].name)
        /\ \A i \in InvocationsOf(s, a) :
              /\ Called(inv[i]) => \A k \in DOMAIN inv[i].res : inv[i].res[k].st = "ok"
              /\ actions[a].type # "message" => inv[i].data = Undefined

\* C14 witness: a connection that received "other" and then "save", with one
\* invocation of its connect action and one of its "save" action, whose handler
\* was called, while the other connection has none
C14_Witness ==
    \E s \in DOMAIN sockets :
        /\ Occurrences(s, "save") = 1 /\ Occurrences(s, "other") = 1
        /\ Len(inv) = 2
        /\ \A i \in DOMAIN inv : inv[i].socket = s
        /\ actions[inv[1].action].type = "connect"
        /\ actions[inv[2].action].name = "save" /\ Called(inv[2])

\* the invocation's own outcome as handleSuccessResult acknowledges it
OwnAck(r) == IF Present(r.outcome.val) THEN r.outcome.val ELSE Str("received")

\* C17: with overlapping invocations of one message action, on one connection
\* or on several, in every interleaving and completion order, every invocation
\* emits only on the connection of its own event and acknowledges only through
\* the function received with its own event, at most once and with its own
\* result; no acknowledgment function is called twice.
C17_OwnSocketAndCallback ==
    /\ \A i \in DOMAIN inv :
          /\ \A k \in DOMAIN inv[i].emits : inv[i].emits[k].socket = inv[i].socket
          /\ Len(inv[i].acks) <= 1
          /\ \A k \in DOMAIN inv[i].ackFns : inv[i].ackFns[k] = inv[i].fn /\ inv[i].fn # "none"
          /\ \A k \in DOMAIN inv[i].acks :
                inv[i].outcome.kind = "fulfilled" /\ inv[i].acks[k] = OwnAck(inv[i])
          /\ \A k \in DOMAIN inv[i].emits :
                /\ inv[i].emits[k].event = "save/success" =>
                      /\ inv[i].outcome.kind = "fulfilled"
                      /\ inv[i].emits[k].payload.v = inv[i].outcome.val.v
    /\ \A i, j \in DOMAIN inv :
          (i # j /\ inv[i].ackFns # <<>> /\ inv[j].ackFns # <<>>)
              => inv[i].ackFns[1] # inv[j].ackFns[1]

\* C17 witness: two overlapping invocations on one connection; the later one
\* has finished first and was acknowledged through its own function with its
\* own result
C17_Witness ==
    /\ Len(inv) = 2
    /\ inv[1].socket = inv[2].socket
    /\ inv[1].pc = "handler" /\ inv[1].fn = "ack1"
    /\ inv[2].pc = "done"
    /\ inv[2].ackFns = <<"ack2">> /\ inv[2].acks = <<Instance("Message", "id=1")>>

\* C15: when the handler of an invocation never settles, every other
\* invocation, on the same or another connection, still runs to its end and
\* produces its emission; the hung invocation itself produces no emission and
\* no acknowledgment.
C15_HangBlocksOnlyItself ==
    /\ \A i \in 1..MaxOverlap :
          [](i \in DOMAIN inv => <>(i \in DOMAIN inv /\ inv[i].pc \in {"done", "hung"}))
    /\ [](\A i \in DOMAIN inv :
            /\ inv[i].pc = "hung" => inv[i].emits = <<>> /\ inv[i].acks = <<>>
            /\ (inv[i].pc = "done" /\ inv[i].outcome.kind = "fulfilled")
                  => Len(inv[i].emits) = 1 /\ inv[i].emits[1].event = "save/success"
            /\ (inv[i].pc = "done" /\ inv[i].outcome.kind # "fulfilled")
                  => Len(inv[i].emits) = 1 /\ inv[i].emits[1].event = "save/error")

\* C15 witness: the first invocation hangs and a later one on the same
\* connection has emitted its success event
C15_Witness ==
    \E i, j \in DOMAIN inv :
        /\ i < j /\ inv[i].socket = inv[j].socket
        /\ inv[i].pc = "hung"
        /\ inv[j].pc = "done" /\ inv[j].emits # <<>>
        /\ inv[j].emits[1].event = "save/success"

====
